---- MODULE Spec2Model ----
(***************************************************************************)
(* Motion-to-heat pipeline of the Humanize webcam demo.                    *)
(*                                                                         *)
(* The model follows the React tree of src/app/page.tsx: the page state    *)
(* (landmarks, movementData, appState), the MotionAnalyzer instance        *)
(* (previousLandmarksRef) and the HeatmapRenderer instance                 *)
(* (heatHistoryRef, animationFrameRef and the render closure of the        *)
(* current effect).  A state update and the effects it triggers are one    *)
(* step: React commits them before the next browser task runs.             *)
(*                                                                         *)
(* Real numbers are fixed-point integers in units of 1/SCALE; products     *)
(* and quotients truncate.                                                 *)
(*                                                                         *)
(* Spec is the page with its components.  SpecAnalyze, SpecMotionUtils,    *)
(* SpecColor, SpecHands and SpecRender each run one call of a function     *)
(* (the motion analysis, the two functions of motionUtils,                 *)
(* movementToColor, detectRaisedHands, render) on arguments drawn from a   *)
(* wider domain, with the page at rest: args holds the arguments and       *)
(* result the returned value.  SpecWebcam and SpecWebcamRetrying are the   *)
(* two versions of the useWebcam hook, SpecPlasma the plasma balls of the  *)
(* page, each with the rest of the page at rest.                           *)
(***************************************************************************)
EXTENDS Integers, Sequences, FiniteSets, TLC

\* ------------------------------------------------------------------------
\* Bounds of the model
\* ------------------------------------------------------------------------

\* number of landmarks of a landmark set (33 for MediaPipe Pose)
NumLandmarks == 2

\* render() runs of one effect run that are explored
MaxTicksPerSummary == 2

\* pose results and control changes explored in one webcam session
MaxEvents == 3

\* MediaStreams that getUserMedia hands out
MaxStreams == 8

\* plasma balls created in one run of the page
MaxPlasmaBalls == 2

\* ------------------------------------------------------------------------
\* Fixed-point arithmetic
\* ------------------------------------------------------------------------

SCALE == 100 * 100

Fx(n, d) == (n * SCALE) \div d

Mul(a, b) == (a * b) \div SCALE

Div(a, b) == (a * SCALE) \div b

Max(a, b) == IF a >= b THEN a ELSE b

Min(a, b) == IF a <= b THEN a ELSE b

RECURSIVE SqrtFrom(_, _, _)
SqrtFrom(n, r, step) ==
    IF step = 0 THEN r
    ELSE IF (r + step) * (r + step) <= n
         THEN SqrtFrom(n, r + step, step \div 2)
         ELSE SqrtFrom(n, r, step \div 2)

\* Math.sqrt on squared fixed-point units: the largest r with r*r <= n,
\* found bit by bit from 2^14 down
Sqrt(n) == SqrtFrom(n, 0, 2^14)

RECURSIVE SumOver(_, _)
SumOver(S, f) ==
    IF S = {} THEN 0
    ELSE LET i == CHOOSE j \in S : TRUE IN f[i] + SumOver(S \ {i}, f)

\* ------------------------------------------------------------------------
\* Input domain
\* ------------------------------------------------------------------------

Indices == 0 .. (NumLandmarks - 1)

\* x positions of landmark 0: at rest, moved by 0.009, moved by 0.011
XChoices == {Fx(500, 1000), Fx(509, 1000), Fx(511, 1000)}

\* visibility scores: the boundary value 0.5 (not visible) and 0.9
VisLow == Fx(5, 10)
VisHigh == Fx(9, 10)

Visibilities == {VisLow, VisHigh}

\* a landmark set: landmark 0 at x with visibility v0, the other landmarks
\* at rest with visibility vr
Frame(x, v0, vr) ==
    [i \in Indices |->
        [x |-> IF i = 0 THEN x ELSE Fx(1, 2),
         y |-> Fx(1, 2),
         z |-> 0,
         visibility |-> IF i = 0 THEN v0 ELSE vr]]

Frames == {Frame(x, v0, vr) : x \in XChoices, v0 \in Visibilities, vr \in Visibilities}

\* null / undefined / an empty array
Null == <<>>

Sensitivities == {50, 100}

DecayRates == {0, 10, 50, 100}

\* ------------------------------------------------------------------------
\* motionUtils
\* ------------------------------------------------------------------------

calculateLandmarkDistance(l1, l2) ==
    LET dx == l1.x - l2.x
        dy == l1.y - l2.y
        dz == l1.z - l2.z
    IN Sqrt(dx * dx + dy * dy + dz * dz)

\* variant: a landmark that is not visible counts as a landmark that did not
\* move
calculateMovementIntensityAllCounted(currentLandmarks, previousLandmarks) ==
    IF previousLandmarks = Null THEN 0
    ELSE
        LET visible == {i \in DOMAIN currentLandmarks :
                           /\ currentLandmarks[i].visibility > Fx(1, 2)
                           /\ previousLandmarks[i].visibility > Fx(1, 2)}
            distance == [i \in visible |->
                           calculateLandmarkDistance(currentLandmarks[i],
                                                     previousLandmarks[i])]
        IN SumOver(visible, distance) \div Cardinality(DOMAIN currentLandmarks)

calculateMovementIntensity(currentLandmarks, previousLandmarks) ==
    IF previousLandmarks = Null THEN 0
    ELSE
        LET visible == {i \in DOMAIN currentLandmarks :
                           /\ currentLandmarks[i].visibility > Fx(1, 2)
                           /\ previousLandmarks[i].visibility > Fx(1, 2)}
            distance == [i \in visible |->
                           calculateLandmarkDistance(currentLandmarks[i],
                                                     previousLandmarks[i])]
            totalMovement == SumOver(visible, distance)
            visibleCount == Cardinality(visible)
        IN IF visibleCount > 0 THEN totalMovement \div visibleCount ELSE 0

\* variant: the quotient is not clamped
normalizeMovementUnclamped(movement, thr) == Div(movement, thr)

normalizeMovement(movement, thr) == Max(0, Min(Div(movement, thr), SCALE))

Regions == {"head", "torso", "leftArm", "rightArm", "leftLeg", "rightLeg"}

\* the region of landmark index i, "none" for an index without an entry
LANDMARK_REGIONS(i) ==
    IF i \in {0, 2, 5, 7, 8} THEN "head"
    ELSE IF i \in {11, 12} THEN "torso"
    ELSE IF i \in {13, 15} THEN "leftArm"
    ELSE IF i \in {14, 16} THEN "rightArm"
    ELSE IF i \in {23, 25, 27} THEN "leftLeg"
    ELSE IF i \in {24, 26, 28} THEN "rightLeg"
    ELSE "none"

NoRegionMovement == [r \in Regions |-> 0]

\* variant: the region totals are not divided by the region counts
getBodyRegionMovementTotals(currentLandmarks, previousLandmarks) ==
    IF previousLandmarks = Null THEN NoRegionMovement
    ELSE
        [r \in Regions |->
            LET counted == {i \in DOMAIN currentLandmarks :
                               /\ LANDMARK_REGIONS(i) = r
                               /\ currentLandmarks[i].visibility > Fx(1, 2)
                               /\ previousLandmarks[i].visibility > Fx(1, 2)}
                distance == [i \in counted |->
                               calculateLandmarkDistance(currentLandmarks[i],
                                                         previousLandmarks[i])]
            IN SumOver(counted, distance)]

getBodyRegionMovement(currentLandmarks, previousLandmarks) ==
    IF previousLandmarks = Null THEN NoRegionMovement
    ELSE
        [r \in Regions |->
            LET counted == {i \in DOMAIN currentLandmarks :
                               /\ LANDMARK_REGIONS(i) = r
                               /\ currentLandmarks[i].visibility > Fx(1, 2)
                               /\ previousLandmarks[i].visibility > Fx(1, 2)}
                distance == [i \in counted |->
                               calculateLandmarkDistance(currentLandmarks[i],
                                                         previousLandmarks[i])]
            IN IF Cardinality(counted) > 0
               THEN SumOver(counted, distance) \div Cardinality(counted)
               ELSE 0]

\* calculateMovementIntensity reads previous.visibility of an index the
\* previous set does not have (previous is undefined): a TypeError
intensityThrows(currentLandmarks, previousLandmarks) ==
    /\ previousLandmarks # Null
    /\ \E i \in DOMAIN currentLandmarks :
           /\ currentLandmarks[i].visibility > Fx(1, 2)
           /\ i \notin DOMAIN previousLandmarks

\* the same read in getBodyRegionMovement, which skips the indices without a
\* region first
regionsThrow(currentLandmarks, previousLandmarks) ==
    /\ previousLandmarks # Null
    /\ \E i \in DOMAIN currentLandmarks :
           /\ LANDMARK_REGIONS(i) # "none"
           /\ currentLandmarks[i].visibility > Fx(1, 2)
           /\ i \notin DOMAIN previousLandmarks

\* the outcome of a call of each of the two functions: a returned value or a
\* thrown error
motionUtilsOutcome(currentLandmarks, previousLandmarks) ==
    [intensity |->
        IF intensityThrows(currentLandmarks, previousLandmarks)
        THEN [threw |-> TRUE]
        ELSE [threw |-> FALSE,
              value |-> calculateMovementIntensity(currentLandmarks, previousLandmarks)],
     regionMovement |->
        IF regionsThrow(currentLandmarks, previousLandmarks)
        THEN [threw |-> TRUE]
        ELSE [threw |-> FALSE,
              value |-> getBodyRegionMovement(currentLandmarks, previousLandmarks)]]

\* ------------------------------------------------------------------------
\* gestureUtils
\* ------------------------------------------------------------------------

\* the result for a missing or too short landmark set
NoHands ==
    [leftHand |-> [detected |-> FALSE, position |-> Null],
     rightHand |-> [detected |-> FALSE, position |-> Null],
     handsTogether |-> FALSE,
     mergedPosition |-> Null]

\* the wrist is visible with its elbow and shoulder, and above both by the
\* threshold 0.15 (elbow) and half of it (shoulder)
handRaised(wrist, elbow, shoulder) ==
    /\ wrist.visibility > Fx(1, 2)
    /\ elbow.visibility > Fx(1, 2)
    /\ shoulder.visibility > Fx(1, 2)
    /\ wrist.y < elbow.y - Fx(15, 100)
    /\ wrist.y < shoulder.y - Mul(Fx(15, 100), Fx(5, 10))

\* variant: two raised hands are never merged
handsNeverClose(leftPosition, rightPosition) == FALSE

\* distance < mergeThreshold for the two wrist positions
handsClose(leftPosition, rightPosition) ==
    LET dx == leftPosition.x - rightPosition.x
        dy == leftPosition.y - rightPosition.y
    IN Sqrt(dx * dx + dy * dy) < Fx(1, 10)

\* variant: a merged pair keeps its individual flags
handFlagKept(handDetected, handsTogether) == handDetected

\* the detected flag of one hand in the result
handFlag(handDetected, handsTogether) == handDetected /\ ~handsTogether

detectRaisedHands(lms) ==
    IF lms = Null \/ Cardinality(DOMAIN lms) < 17 THEN NoHands
    ELSE
        LET leftHandDetected == handRaised(lms[15], lms[13], lms[11])
            rightHandDetected == handRaised(lms[16], lms[14], lms[12])
            leftPosition == IF leftHandDetected
                            THEN [x |-> lms[15].x, y |-> lms[15].y] ELSE Null
            rightPosition == IF rightHandDetected
                             THEN [x |-> lms[16].x, y |-> lms[16].y] ELSE Null
            handsTogether == /\ leftHandDetected
                             /\ rightHandDetected
                             /\ handsClose(leftPosition, rightPosition)
            mergedPosition == IF handsTogether
                              THEN [x |-> (leftPosition.x + rightPosition.x) \div 2,
                                    y |-> (leftPosition.y + rightPosition.y) \div 2]
                              ELSE Null
        IN [leftHand |-> [detected |-> handFlag(leftHandDetected, handsTogether),
                          position |-> IF handsTogether THEN Null ELSE leftPosition],
            rightHand |-> [detected |-> handFlag(rightHandDetected, handsTogether),
                           position |-> IF handsTogether THEN Null ELSE rightPosition],
            handsTogether |-> handsTogether,
            mergedPosition |-> mergedPosition]

\* ------------------------------------------------------------------------
\* heatmapUtils
\* ------------------------------------------------------------------------

\* variant: the intensity is used as it comes
clampNone(intensity) == intensity

\* Math.max(0, Math.min(1, intensity))
clampUnit(intensity) == Max(0, Min(SCALE, intensity))

\* variant: the interpolated channel is rounded up
lerpCeil(a, b, num, den) == (a * (den - num) + b * num + den - 1) \div den

\* Math.floor(a * (1 - t) + b * t) for t = num / den, in exact arithmetic
lerp(a, b, num, den) == (a * (den - num) + b * num) \div den

movementToColor(intensity) ==
    LET clamped == clampUnit(intensity)
    IN IF clamped < Fx(33, 100)
       THEN [r |-> lerp(0, 0, clamped, Fx(33, 100)),
             g |-> lerp(100, 255, clamped, Fx(33, 100)),
             b |-> lerp(255, 0, clamped, Fx(33, 100))]
       ELSE IF clamped < Fx(66, 100)
       THEN [r |-> lerp(0, 255, clamped - Fx(33, 100), Fx(33, 100)),
             g |-> lerp(255, 255, clamped - Fx(33, 100), Fx(33, 100)),
             b |-> lerp(0, 0, clamped - Fx(33, 100), Fx(33, 100))]
       ELSE [r |-> lerp(255, 255, clamped - Fx(66, 100), Fx(34, 100)),
             g |-> lerp(255, 0, clamped - Fx(66, 100), Fx(34, 100)),
             b |-> lerp(0, 0, clamped - Fx(66, 100), Fx(34, 100))]

\* variant: the decay rate used as the retention factor
applyHeatDecayInverted(currentHeat, decayRate) == Mul(currentHeat, decayRate)

applyHeatDecay(currentHeat, decayRate) == Mul(currentHeat, SCALE - decayRate)


\* heatHistoryRef.current after the decay pass of render()
DecayPass(heat, decayFactor) ==
    LET decayedHeat == [i \in DOMAIN heat |-> applyHeatDecay(heat[i], decayFactor)]
    IN [i \in {j \in DOMAIN heat : decayedHeat[j] > Fx(1, 100)} |-> decayedHeat[i]]

\* variant: the intensity is added to the damped existing heat
UpdatePassAdditive(heat, md) ==
    LET visible == {i \in DOMAIN md.landmarks :
                       md.landmarks[i].visibility > Fx(1, 2)}
        existingHeat(i) == IF i \in DOMAIN heat THEN heat[i] ELSE 0
    IN [i \in (DOMAIN heat) \cup visible |->
           IF i \in visible
           THEN md.intensity + Mul(existingHeat(i), Fx(8, 10))
           ELSE heat[i]]

\* variant: the update pass does not look at the visibility
UpdatePassEveryLandmark(heat, md) ==
    LET existingHeat(i) == IF i \in DOMAIN heat THEN heat[i] ELSE 0
    IN [i \in (DOMAIN heat) \cup (DOMAIN md.landmarks) |->
           IF i \in DOMAIN md.landmarks
           THEN Max(md.intensity, Mul(existingHeat(i), Fx(8, 10)))
           ELSE heat[i]]

\* variant: the new heat is the intensity alone, the existing heat is dropped
UpdatePassOverwrite(heat, md) ==
    LET visible == {i \in DOMAIN md.landmarks :
                       md.landmarks[i].visibility > Fx(1, 2)}
    IN [i \in (DOMAIN heat) \cup visible |->
           IF i \in visible THEN md.intensity ELSE heat[i]]

\* variant: the new heat is the average of the intensity and the existing heat
UpdatePassAverage(heat, md) ==
    LET visible == {i \in DOMAIN md.landmarks :
                       md.landmarks[i].visibility > Fx(1, 2)}
        existingHeat(i) == IF i \in DOMAIN heat THEN heat[i] ELSE 0
    IN [i \in (DOMAIN heat) \cup visible |->
           IF i \in visible
           THEN (md.intensity + existingHeat(i)) \div 2
           ELSE heat[i]]

\* heatHistoryRef.current after the update pass of render()
UpdatePass(heat, md) ==
    LET visible == {i \in DOMAIN md.landmarks :
                       md.landmarks[i].visibility > Fx(1, 2)}
        existingHeat(i) == IF i \in DOMAIN heat THEN heat[i] ELSE 0
    IN [i \in (DOMAIN heat) \cup visible |->
           IF i \in visible
           THEN Max(md.intensity, Mul(existingHeat(i), Fx(8, 10)))
           ELSE heat[i]]

\* variant: the update pass runs before the decay pass
renderUpdateFirst(heat, c) ==
    DecayPass(UpdatePass(heat, c.movementData), c.decayFactor)

\* the heat map after one render(): decay pass, then update pass; c holds the
\* props the render closure captured
render(heat, c) == UpdatePass(DecayPass(heat, c.decayFactor), c.movementData)

\* the stroke width of a skeletal connection whose hotter end has lineHeat
lineWidth(lineHeat) == SCALE + lineHeat * 7

\* a normalized coordinate on a canvas side of size pixels, in 1/100 pixel
pixel(v, size) == (v * size) \div 100

\* variant: a vector is drawn whatever the heat of the landmark
movementVectorsAnyHeat(heat, md, canvas) ==
    IF md.previousLandmarks = Null THEN {}
    ELSE {i \in DOMAIN md.landmarks :
             /\ md.landmarks[i].visibility > Fx(1, 2)
             /\ i \in DOMAIN md.previousLandmarks
             /\ md.previousLandmarks[i].visibility > Fx(1, 2)
             /\ LET dx == pixel(md.landmarks[i].x, canvas.width)
                             - pixel(md.previousLandmarks[i].x, canvas.width)
                    dy == pixel(md.landmarks[i].y, canvas.height)
                             - pixel(md.previousLandmarks[i].y, canvas.height)
                IN dx * dx + dy * dy > 200 * 200}

\* the landmarks for which render() draws a movement vector, heat being the
\* heat map after the update pass; Math.sqrt(dx * dx + dy * dy) > 2 is
\* compared on the squares
movementVectors(heat, md, canvas) ==
    IF md.previousLandmarks = Null THEN {}
    ELSE {i \in DOMAIN md.landmarks :
             /\ md.landmarks[i].visibility > Fx(1, 2)
             /\ i \in DOMAIN md.previousLandmarks
             /\ md.previousLandmarks[i].visibility > Fx(1, 2)
             /\ (IF i \in DOMAIN heat THEN heat[i] ELSE 0) > Fx(5, 100)
             /\ LET dx == pixel(md.landmarks[i].x, canvas.width)
                             - pixel(md.previousLandmarks[i].x, canvas.width)
                    dy == pixel(md.landmarks[i].y, canvas.height)
                             - pixel(md.previousLandmarks[i].y, canvas.height)
                IN dx * dx + dy * dy > 200 * 200}

\* variant: clear() wipes the canvas only
clearCanvasOnly(heat) == heat

\* HeatmapRendererHandle.clear
clear(heat) == Null

\* ------------------------------------------------------------------------
\* State
\* ------------------------------------------------------------------------

VARIABLES
    videoElement,          \* page: a video element is set (webcam session runs)
    landmarks,             \* page: useState landmarks, Null or a landmark set
    movementData,          \* page: useState movementData, <<>> or <<summary>>
    sensitivity,           \* appState.sensitivity
    decayRate,             \* appState.decayRate
    heatmapEnabled,        \* appState.heatmapEnabled
    skeletonViewEnabled,   \* appState.skeletonViewEnabled
    previousLandmarksRef,  \* MotionAnalyzer: previousLandmarksRef.current
    heatHistory,           \* HeatmapRenderer: heatHistoryRef.current
    animationFrame,        \* HeatmapRenderer: a requested frame is pending
    renderClosure,         \* props captured by each scheduled render(), <<>> for none
    ticksOfSummary,        \* render() runs since movementData was last set
    eventCount,            \* pose results and control changes of this session
    cleared,               \* entries the clear() of the last stop found (0 while a session runs)
    stream,                \* useWebcam: useState stream, <<>> or <<MediaStream>>
    isActive,              \* useWebcam: useState isActive
    error,                 \* useWebcam: useState error, <<>> or <<message>>
    facingMode,            \* useWebcam: useState facingMode
    liveStreams,           \* MediaStreams whose tracks have not been stopped
    mediaStreams,          \* MediaStreams getUserMedia has returned so far
    request,               \* useWebcam: the start request in progress, <<>> for none
    plasmaBalls,           \* page: useState plasmaBalls
    plasmaBallIdCounter,   \* page: plasmaBallIdCounter.current
    timeouts,              \* page: pending setTimeout callbacks of the plasma balls
    args,                  \* arguments of a utility function called on its own, or Null
    result                 \* <<value>> the called utility function returned, or Null

hookVars == <<stream, isActive, error, facingMode, liveStreams, mediaStreams,
              request>>

plasmaVars == <<plasmaBalls, plasmaBallIdCounter, timeouts>>

pipelineVars == <<videoElement, landmarks, movementData, sensitivity, decayRate,
                  heatmapEnabled, skeletonViewEnabled, previousLandmarksRef, heatHistory,
                  animationFrame, renderClosure, ticksOfSummary, eventCount,
                  cleared, hookVars, plasmaVars>>

vars == <<videoElement, landmarks, movementData, sensitivity, decayRate,
          heatmapEnabled, skeletonViewEnabled, previousLandmarksRef, heatHistory, animationFrame,
          renderClosure, ticksOfSummary, eventCount, cleared, hookVars, plasmaVars,
          args, result>>

\* MotionAnalyzer is rendered by the page
analyzerMounted == videoElement /\ landmarks # Null

\* HeatmapRenderer is rendered by the page
rendererMounted == videoElement /\ movementData # <<>>

\* variant: the threshold grows with the sensitivity
thresholdInverted(s) == Fx(1, 100) + s * Fx(9, 10000)

threshold(s) == Fx(1, 100) + (100 - s) * Fx(9, 10000)

decayFactor(rate) == Fx(rate, 100)

\* variant: the next MotionAnalyzer instance inherits the ref of the last one
analyzerKeepsRef(ref) == ref

\* previousLandmarksRef.current of the MotionAnalyzer instance that is mounted
\* after the page unmounted the last one: useRef(null)
analyzerRemounted(ref) == Null

\* variant: without a previous set the first frame counts as full movement
MotionAnalyzerEffectFullFirst(lm, prev, thr) ==
    IF prev # Null
    THEN [intensity |-> normalizeMovement(calculateMovementIntensity(lm, prev), thr),
          regionMovement |-> getBodyRegionMovement(lm, prev),
          landmarks |-> lm,
          previousLandmarks |-> prev]
    ELSE [intensity |-> SCALE,
          regionMovement |-> NoRegionMovement,
          landmarks |-> lm,
          previousLandmarks |-> Null]

\* the summary MotionAnalyzer's effect hands to onMovementCalculated
MotionAnalyzerEffect(lm, prev, thr) ==
    IF prev # Null
    THEN [intensity |-> normalizeMovement(calculateMovementIntensity(lm, prev), thr),
          regionMovement |-> getBodyRegionMovement(lm, prev),
          landmarks |-> lm,
          previousLandmarks |-> prev]
    ELSE [intensity |-> 0,
          regionMovement |-> NoRegionMovement,
          landmarks |-> lm,
          previousLandmarks |-> Null]

\* variant: the effect starts the loop without looking at enabled
RenderEffectAlways(md, enabled, rate) ==
    IF md # <<>>
    THEN [animationFrame |-> TRUE,
          renderClosure |-> <<[movementData |-> md[1],
                               decayFactor |-> decayFactor(rate)]>>]
    ELSE [animationFrame |-> FALSE, renderClosure |-> <<>>]

\* variant: the cleanup of the render effect cancels nothing
cancelNothing(pending) == pending

\* the scheduled render() callbacks after the cleanup of the render effect:
\* cancelAnimationFrame(animationFrameRef.current) drops the one that is
\* pending
cancelAnimationFrame(pending) == <<>>

\* HeatmapRenderer's render effect: cleanup of the previous run, then the
\* new run requests a frame unless disabled or without movement data
RenderEffect(md, enabled, rate) ==
    IF enabled /\ md # <<>>
    THEN [animationFrame |-> TRUE,
          renderClosure |-> cancelAnimationFrame(renderClosure)
                                \o <<[movementData |-> md[1],
                                      decayFactor |-> decayFactor(rate)]>>]
    ELSE [animationFrame |-> FALSE,
          renderClosure |-> cancelAnimationFrame(renderClosure)]

\* the page and its components before a webcam session
PipelineInit ==
    /\ videoElement = FALSE
    /\ landmarks = Null
    /\ movementData = <<>>
    /\ sensitivity = 50
    /\ decayRate = 10
    /\ heatmapEnabled = TRUE
    /\ skeletonViewEnabled = FALSE
    /\ previousLandmarksRef = Null
    /\ heatHistory = Null
    /\ animationFrame = FALSE
    /\ renderClosure = <<>>
    /\ ticksOfSummary = 0
    /\ eventCount = 0
    /\ cleared = 0
    /\ stream = <<>>
    /\ isActive = FALSE
    /\ error = <<>>
    /\ facingMode = "user"
    /\ liveStreams = {}
    /\ mediaStreams = 0
    /\ request = <<>>
    /\ plasmaBalls = <<>>
    /\ plasmaBallIdCounter = 0
    /\ timeouts = {}

Init ==
    /\ PipelineInit
    /\ args = Null
    /\ result = Null

\* ------------------------------------------------------------------------
\* Operations
\* ------------------------------------------------------------------------

\* Start Webcam button; the stream opens and WebcamCapture reports the video
handleStartWebcam ==
    /\ ~videoElement
    /\ videoElement' = TRUE
    /\ eventCount' = 0
    /\ cleared' = 0
    /\ UNCHANGED <<landmarks, movementData, sensitivity, decayRate,
                   heatmapEnabled, previousLandmarksRef, heatHistory,
                   animationFrame, renderClosure, ticksOfSummary>>
    /\ UNCHANGED <<hookVars, plasmaVars, args, result, skeletonViewEnabled>>

\* a new summary reaches the page: setMovementData, HeatmapRenderer mounts
\* (with a new heat map) or re-runs its render effect
DeliverSummary(md) ==
    LET loop == RenderEffect(<<md>>, heatmapEnabled, decayRate)
    IN /\ movementData' = <<md>>
       /\ heatHistory' = IF rendererMounted THEN heatHistory ELSE Null
       /\ animationFrame' = loop.animationFrame
       /\ renderClosure' = loop.renderClosure
       /\ ticksOfSummary' = 0

\* pose.onResults -> handleLandmarksDetected -> MotionAnalyzer effect
PoseResults(lm) ==
    /\ videoElement
    /\ eventCount < MaxEvents
    /\ eventCount' = eventCount + 1
    /\ landmarks' = lm
    /\ IF lm = Null
       THEN \* MotionAnalyzer is unmounted; nothing calls onMovementCalculated
            /\ previousLandmarksRef' = analyzerRemounted(previousLandmarksRef)
            /\ UNCHANGED <<movementData, heatHistory, animationFrame,
                           renderClosure, ticksOfSummary>>
       ELSE /\ DeliverSummary(MotionAnalyzerEffect(lm, previousLandmarksRef,
                                                   threshold(sensitivity)))
            /\ previousLandmarksRef' = lm
    /\ UNCHANGED <<videoElement, sensitivity, decayRate, heatmapEnabled, cleared>>
    /\ UNCHANGED <<hookVars, plasmaVars, args, result, skeletonViewEnabled>>

\* one requestAnimationFrame callback: render()
RenderFrame ==
    /\ animationFrame
    /\ ticksOfSummary < MaxTicksPerSummary
    /\ heatHistory' = render(heatHistory, renderClosure[1])
    /\ ticksOfSummary' = ticksOfSummary + 1
    /\ UNCHANGED <<videoElement, landmarks, movementData, sensitivity, decayRate,
                   heatmapEnabled, previousLandmarksRef, animationFrame,
                   renderClosure, eventCount, cleared>>
    /\ UNCHANGED <<hookVars, plasmaVars, args, result, skeletonViewEnabled>>

\* sensitivity slider: threshold changes, MotionAnalyzer's effect runs again
SetSensitivity(s) ==
    /\ s # sensitivity
    /\ sensitivity' = s
    /\ IF analyzerMounted
       THEN /\ eventCount < MaxEvents
            /\ eventCount' = eventCount + 1
            /\ DeliverSummary(MotionAnalyzerEffect(landmarks, previousLandmarksRef,
                                                   threshold(s)))
            /\ previousLandmarksRef' = landmarks
       ELSE UNCHANGED <<movementData, heatHistory, animationFrame, renderClosure,
                        ticksOfSummary, previousLandmarksRef, eventCount>>
    /\ UNCHANGED <<videoElement, landmarks, decayRate, heatmapEnabled, cleared>>
    /\ UNCHANGED <<hookVars, plasmaVars, args, result, skeletonViewEnabled>>

\* decay slider: decayFactor changes, the render effect runs again
SetDecayRate(r) ==
    /\ r # decayRate
    /\ decayRate' = r
    /\ LET loop == RenderEffect(movementData, heatmapEnabled, r)
       IN IF rendererMounted
          THEN /\ eventCount < MaxEvents
               /\ eventCount' = eventCount + 1
               /\ animationFrame' = loop.animationFrame
               /\ renderClosure' = loop.renderClosure
          ELSE UNCHANGED <<animationFrame, renderClosure, eventCount>>
    /\ UNCHANGED <<videoElement, landmarks, movementData, sensitivity,
                   heatmapEnabled, previousLandmarksRef, heatHistory,
                   ticksOfSummary, cleared>>
    /\ UNCHANGED <<hookVars, plasmaVars, args, result, skeletonViewEnabled>>

\* heatmap toggle: enabled changes, the render effect runs again
ToggleHeatmap ==
    /\ heatmapEnabled' = ~heatmapEnabled
    /\ LET loop == RenderEffect(movementData, ~heatmapEnabled, decayRate)
       IN IF rendererMounted
          THEN /\ eventCount < MaxEvents
               /\ eventCount' = eventCount + 1
               /\ animationFrame' = loop.animationFrame
               /\ renderClosure' = loop.renderClosure
          ELSE UNCHANGED <<animationFrame, renderClosure, eventCount>>
    /\ UNCHANGED <<videoElement, landmarks, movementData, sensitivity, decayRate,
                   previousLandmarksRef, heatHistory, ticksOfSummary, cleared>>
    /\ UNCHANGED <<hookVars, plasmaVars, args, result, skeletonViewEnabled>>

\* skeleton view toggle: skeletonViewEnabled changes, the render effect runs
\* again
ToggleSkeletonView ==
    /\ skeletonViewEnabled' = ~skeletonViewEnabled
    /\ LET loop == RenderEffect(movementData, heatmapEnabled, decayRate)
       IN IF rendererMounted
          THEN /\ eventCount < MaxEvents
               /\ eventCount' = eventCount + 1
               /\ animationFrame' = loop.animationFrame
               /\ renderClosure' = loop.renderClosure
          ELSE UNCHANGED <<animationFrame, renderClosure, eventCount>>
    /\ UNCHANGED <<videoElement, landmarks, movementData, sensitivity, decayRate,
                   heatmapEnabled, previousLandmarksRef, heatHistory,
                   ticksOfSummary, cleared>>
    /\ UNCHANGED <<hookVars, plasmaVars, args, result>>

\* Stop Webcam button
handleStopWebcam ==
    /\ videoElement
    /\ videoElement' = FALSE
    /\ landmarks' = Null
    /\ movementData' = <<>>
    /\ heatHistory' = IF rendererMounted THEN clear(heatHistory) ELSE heatHistory
    /\ previousLandmarksRef' = Null
    /\ animationFrame' = FALSE
    /\ renderClosure' = <<>>
    /\ ticksOfSummary' = 0
    /\ cleared' = IF rendererMounted THEN Cardinality(DOMAIN heatHistory) ELSE 0
    /\ UNCHANGED <<sensitivity, decayRate, heatmapEnabled, eventCount>>
    /\ UNCHANGED <<hookVars, plasmaVars, args, result, skeletonViewEnabled>>

Next ==
    \/ handleStartWebcam
    \/ \E lm \in Frames \cup {Null} : PoseResults(lm)
    \/ RenderFrame
    \/ \E s \in Sensitivities : SetSensitivity(s)
    \/ \E r \in DecayRates : SetDecayRate(r)
    \/ ToggleHeatmap
    \/ ToggleSkeletonView
    \/ handleStopWebcam

Spec == Init /\ [][Next]_vars

\* ------------------------------------------------------------------------
\* The motion analysis on its own: one call of MotionAnalyzer's effect body
\* on a pair of 33-landmark sets
\* ------------------------------------------------------------------------

PoseIndices == 0 .. 32

AtRest == [x |-> Fx(1, 2), y |-> Fx(1, 2), z |-> 0]

\* 0.07 away from AtRest: (0.02, 0.03, 0.06)
Nearby == [x |-> Fx(52, 100), y |-> Fx(53, 100), z |-> Fx(6, 100)]

\* two opposite corners of the image, sqrt(2) apart
CornerA == [x |-> 0, y |-> 0, z |-> 0]
CornerB == [x |-> SCALE, y |-> SCALE, z |-> 0]

Placed(p, v) == [x |-> p.x, y |-> p.y, z |-> p.z, visibility |-> v]

\* a landmark set: the nose (0), the left eye (2), and every other landmark
\* sharing one position and one visibility
PoseFrame(nose, leftEye, others) ==
    [i \in PoseIndices |->
        IF i = 0 THEN nose ELSE IF i = 2 THEN leftEye ELSE others]

CurrentPoses ==
    {PoseFrame(Placed(p0, v0), Placed(p2, v2), Placed(pr, vr)) :
        p0 \in {AtRest, Nearby, CornerB}, p2 \in {AtRest, Nearby},
        pr \in {AtRest, Nearby}, v0 \in Visibilities, v2 \in Visibilities,
        vr \in Visibilities}

PreviousPoses ==
    {PoseFrame(Placed(p0, v0), Placed(AtRest, v2), Placed(AtRest, vr)) :
        p0 \in {AtRest, CornerA}, v0 \in Visibilities, v2 \in Visibilities,
        vr \in Visibilities}

AnalyzeSensitivities == {0, 25, 50, 75, 100}

InitAnalyze ==
    /\ PipelineInit
    /\ args \in [current : CurrentPoses,
                  previous : PreviousPoses \cup {Null},
                  sensitivity : AnalyzeSensitivities]
    /\ result = Null

\* the effect body of MotionAnalyzer for landmarks args.current, with
\* previousLandmarksRef.current = args.previous and the threshold of
\* args.sensitivity; the raw intensity and the threshold are kept next to the
\* summary
Analyze ==
    /\ result = Null
    /\ result' =
           <<[threshold |-> threshold(args.sensitivity),
              rawIntensity |-> calculateMovementIntensity(args.current, args.previous),
              summary |-> MotionAnalyzerEffect(args.current, args.previous,
                                               threshold(args.sensitivity))]>>
    /\ UNCHANGED <<args, pipelineVars>>

SpecAnalyze == InitAnalyze /\ [][Analyze]_vars

\* ------------------------------------------------------------------------
\* motionUtils on its own: one call of calculateMovementIntensity and one of
\* getBodyRegionMovement on the same pair, the previous set of any length
\* ------------------------------------------------------------------------

\* previous sets that stop after the nose, after the right wrist, and one
\* landmark short of a full set
ShortPoses ==
    {[i \in 0 .. (n - 1) |-> Placed(AtRest, v)] :
        n \in {1, 17, 32}, v \in Visibilities}

InitMotionUtils ==
    /\ PipelineInit
    /\ args \in [current : CurrentPoses,
                  previous : PreviousPoses \cup ShortPoses \cup {Null}]
    /\ result = Null

CallMotionUtils ==
    /\ result = Null
    /\ result' = <<motionUtilsOutcome(args.current, args.previous)>>
    /\ UNCHANGED <<args, pipelineVars>>

SpecMotionUtils == InitMotionUtils /\ [][CallMotionUtils]_vars

\* ------------------------------------------------------------------------
\* The colour ramp on its own: one call of movementToColor
\* ------------------------------------------------------------------------

\* -0.10, -0.09, .. 1.10, and two values far outside [0, 1]
ColorIntensities == {Fx(n, 100) : n \in -10 .. 110} \cup {-5 * SCALE, 7 * SCALE}

InitColor ==
    /\ PipelineInit
    /\ args \in [intensity : ColorIntensities]
    /\ result = Null

ApplyColor ==
    /\ result = Null
    /\ result' = <<movementToColor(args.intensity)>>
    /\ UNCHANGED <<args, pipelineVars>>

SpecColor == InitColor /\ [][ApplyColor]_vars

\* ------------------------------------------------------------------------
\* The gesture detection on its own: one call of detectRaisedHands
\* ------------------------------------------------------------------------

\* heights of a wrist: raised for any elbow (0.30), exactly 0.15 above the
\* elbow at 0.50 (0.35), raised for the low elbow only (0.38), above the elbow
\* but not the shoulder (0.43), not raised (0.50)
WristHeights == {Fx(30, 100), Fx(35, 100), Fx(38, 100), Fx(43, 100), Fx(50, 100)}

\* heights of an elbow: below the shoulder (0.60) and level with it (0.50)
ElbowHeights == {Fx(60, 100), Fx(50, 100)}

\* x of the left wrist: 0.11, 0.04 and 0 beside the right wrist
LeftWristXs == {Fx(39, 100), Fx(46, 100), Fx(50, 100)}

\* a landmark set of n landmarks: the shoulders (11, 12) at height 0.5, the
\* elbows (13, 14) and wrists (15, 16) as given, the right wrist at x 0.5,
\* every other landmark at rest
ArmsFrame(n, lwx, lwy, lwv, ley, rwy, rwv, rey, sv) ==
    [i \in 0 .. (n - 1) |->
        IF i \in {11, 12} THEN Placed(AtRest, sv)
        ELSE IF i = 13 THEN [x |-> Fx(1, 2), y |-> ley, z |-> 0, visibility |-> VisHigh]
        ELSE IF i = 14 THEN [x |-> Fx(1, 2), y |-> rey, z |-> 0, visibility |-> VisHigh]
        ELSE IF i = 15 THEN [x |-> lwx, y |-> lwy, z |-> 0, visibility |-> lwv]
        ELSE IF i = 16 THEN [x |-> Fx(1, 2), y |-> rwy, z |-> 0, visibility |-> rwv]
        ELSE Placed(AtRest, VisHigh)]

\* full sets of 33 landmarks, sets cut off before the right wrist, and no set
ArmsFrames ==
    {ArmsFrame(33, lwx, lwy, lwv, ley, rwy, rwv, rey, sv) :
        lwx \in LeftWristXs, lwy \in WristHeights, lwv \in Visibilities,
        ley \in ElbowHeights, rwy \in WristHeights, rwv \in Visibilities,
        rey \in ElbowHeights, sv \in Visibilities}
    \cup {ArmsFrame(16, Fx(46, 100), lwy, VisHigh, Fx(60, 100),
                    Fx(30, 100), VisHigh, Fx(60, 100), VisHigh) :
              lwy \in WristHeights}
    \cup {Null}

InitHands ==
    /\ PipelineInit
    /\ args \in [landmarks : ArmsFrames]
    /\ result = Null

DetectHands ==
    /\ result = Null
    /\ result' = <<detectRaisedHands(args.landmarks)>>
    /\ UNCHANGED <<args, pipelineVars>>

SpecHands == InitHands /\ [][DetectHands]_vars

\* ------------------------------------------------------------------------
\* The renderer on its own: one run of render() on a 33-landmark summary
\* ------------------------------------------------------------------------

\* 0.002 to the right of AtRest: 1.28 pixels on a canvas 640 wide, 2.56 on
\* one 1280 wide
Slightly == [x |-> Fx(502, 1000), y |-> Fx(1, 2), z |-> 0]

\* summaries of the analyzer: the nose at rest in the previous set (if any)
\* and at rest, slightly moved or moved by (0.02, 0.03) in the current one
RenderSummaries ==
    {MotionAnalyzerEffect(PoseFrame(Placed(p0, v0), Placed(AtRest, VisHigh),
                                    Placed(AtRest, vr)),
                          prev, threshold(s)) :
        p0 \in {AtRest, Slightly, Nearby}, v0 \in Visibilities,
        vr \in Visibilities,
        prev \in {Null} \cup {PoseFrame(Placed(AtRest, pv), Placed(AtRest, VisHigh),
                                        Placed(AtRest, VisHigh)) :
                                  pv \in Visibilities},
        s \in {0, 100}}

\* heat maps before the run: empty, a hot nose, a hot nose and a lukewarm eye
RenderHeatMaps ==
    {Null,
     [i \in {0} |-> Fx(9, 10)],
     [i \in {0, 2} |-> IF i = 0 THEN Fx(9, 10) ELSE Fx(6, 100)]}

Canvases == {[width |-> 640, height |-> 480], [width |-> 1280, height |-> 720]}

InitRender ==
    /\ PipelineInit
    /\ args \in [heatHistory : RenderHeatMaps,
                  closure : [movementData : RenderSummaries,
                             decayFactor : {decayFactor(r) : r \in DecayRates}],
                  canvas : Canvases]
    /\ result = Null

\* one run of render(): the heat map it leaves and the movement vectors it
\* draws
RenderOnce ==
    /\ result = Null
    /\ result' =
           <<[heatHistory |-> render(args.heatHistory, args.closure),
              vectors |-> movementVectors(render(args.heatHistory, args.closure),
                                          args.closure.movementData, args.canvas)]>>
    /\ UNCHANGED <<args, pipelineVars>>

SpecRender == InitRender /\ [][RenderOnce]_vars

\* ------------------------------------------------------------------------
\* useWebcam (src/hooks/useWebcam.ts) on its own: calls of startWebcam,
\* switchCamera and stopWebcam, each run to completion with the commit and the
\* effect cleanups that follow it
\* ------------------------------------------------------------------------

\* the state of the hook
hookState ==
    [stream |-> stream, isActive |-> isActive, error |-> error,
     facingMode |-> facingMode, liveStreams |-> liveStreams]

\* what getUserMedia settles with: a stream, or a rejection by its name
\* ("NotAnError" is a rejection with a value that is no Error)
GetUserMediaOutcomes ==
    {"stream", "NotAllowedError", "NotFoundError", "AbortError", "NotAnError"}

errorMessage(name) ==
    CASE name = "NotAllowedError" -> "Camera permission denied. Please allow camera access."
      [] name = "NotFoundError" -> "No camera found. Please connect a camera."
      [] name = "NotAnError" -> "Failed to access webcam"
      [] OTHER -> "Camera error: message"

\* stream.getTracks().forEach((track) => track.stop())
stopTracks(live, s) == IF s = <<>> THEN live ELSE live \ {s[1]}

startWebcamWithFacingMode(h, mode, outcome, mediaStream) ==
    LET stopped == [h EXCEPT !.error = <<>>,
                             !.liveStreams = stopTracks(@, h.stream)]
    IN  IF outcome = "stream"
        THEN [stopped EXCEPT !.stream = <<mediaStream>>,
                             !.isActive = TRUE,
                             !.facingMode = mode,
                             !.liveStreams = @ \cup {mediaStream}]
        ELSE [stopped EXCEPT !.error = <<errorMessage(outcome)>>,
                             !.isActive = FALSE]

stopWebcam(h) ==
    IF h.stream # <<>>
    THEN [h EXCEPT !.liveStreams = stopTracks(@, h.stream),
                   !.stream = <<>>,
                   !.isActive = FALSE]
    ELSE h

\* the effect on [stopWebcam]: stopWebcam is rebuilt when stream changes, and
\* the commit then runs the cleanup of the previous effect, which calls the
\* previous stopWebcam, whose closure holds the previous stream; the state it
\* sets is committed in turn
RECURSIVE stopWebcamCleanup(_, _)
stopWebcamCleanup(closure, h) ==
    IF h.stream = closure \/ closure = <<>>
    THEN h
    ELSE stopWebcamCleanup(h.stream, stopWebcam([h EXCEPT !.stream = closure]))

\* the hook state h is committed
commit(h) ==
    /\ stream' = h.stream
    /\ isActive' = h.isActive
    /\ error' = h.error
    /\ facingMode' = h.facingMode
    /\ liveStreams' = h.liveStreams

pageAtRest ==
    UNCHANGED <<videoElement, landmarks, movementData, sensitivity, decayRate,
                heatmapEnabled, skeletonViewEnabled, previousLandmarksRef,
                heatHistory, animationFrame, renderClosure, ticksOfSummary,
                eventCount, cleared, plasmaVars, args, result>>

\* getUserMedia settles with the outcome, a stream being a new one
getUserMedia(outcome) ==
    /\ outcome = "stream" => mediaStreams < MaxStreams
    /\ mediaStreams' = IF outcome = "stream" THEN mediaStreams + 1 ELSE mediaStreams

StartWebcam ==
    \E outcome \in GetUserMediaOutcomes :
        /\ getUserMedia(outcome)
        /\ commit(stopWebcamCleanup(stream,
               startWebcamWithFacingMode(hookState, "user", outcome, mediaStreams + 1)))
        /\ UNCHANGED request
        /\ pageAtRest

SwitchCamera ==
    \E outcome \in GetUserMediaOutcomes :
        /\ isActive
        /\ getUserMedia(outcome)
        /\ commit(stopWebcamCleanup(stream,
               startWebcamWithFacingMode(hookState,
                   IF facingMode = "user" THEN "environment" ELSE "user",
                   outcome, mediaStreams + 1)))
        /\ UNCHANGED request
        /\ pageAtRest

StopWebcam ==
    /\ commit(stopWebcamCleanup(stream, stopWebcam(hookState)))
    /\ UNCHANGED <<mediaStreams, request>>
    /\ pageAtRest

SpecWebcam == Init /\ [][StartWebcam \/ SwitchCamera \/ StopWebcam]_vars

\* ------------------------------------------------------------------------
\* The retrying useWebcam (src/unnamed/part_002) on its own.  A start request
\* is in progress from the call of startWebcamWithFacingMode with retryCount
\* 0 until the last of its attempts has settled; stopWebcam and the effect
\* on [stopWebcam] are those of src/hooks/useWebcam.ts, line for line.
\* ------------------------------------------------------------------------

RetryingOutcomes ==
    GetUserMediaOutcomes \cup {"NotReadableError", "OverconstrainedError"}

\* variant: a busy camera is retried once more
retryLimitThree(name) ==
    CASE name \in {"NotReadableError", "OverconstrainedError"} -> 3
      [] name = "AbortError" -> 1
      [] OTHER -> 0

\* the retryCount below which a rejection of this name is retried
retryLimit(name) ==
    CASE name \in {"NotReadableError", "OverconstrainedError"} -> 2
      [] name = "AbortError" -> 1
      [] OTHER -> 0

errorMessageRetrying(name) ==
    CASE name = "NotReadableError" ->
             "Camera is busy or not available. Please close other apps using the camera and try again."
      [] name = "OverconstrainedError" ->
             "Camera error: message. Back camera may not be available."
      [] OTHER -> errorMessage(name)

\* an attempt up to its first delay: the error is reset, the tracks of the
\* stream of the closure are stopped and the stream is reset
beginAttempt(h, currentStream) ==
    stopWebcamCleanup(h.stream,
        [h EXCEPT !.error = <<>>,
                  !.liveStreams = stopTracks(@, currentStream),
                  !.stream = IF currentStream # <<>> THEN <<>> ELSE @])

\* getUserMedia of an attempt resolved
attemptResolved(h, mode, mediaStream) ==
    stopWebcamCleanup(h.stream,
        [h EXCEPT !.stream = <<mediaStream>>,
                  !.isActive = TRUE,
                  !.facingMode = mode,
                  !.liveStreams = @ \cup {mediaStream}])

\* getUserMedia of the last attempt rejected
attemptFailed(h, name) ==
    stopWebcamCleanup(h.stream,
        [h EXCEPT !.error = <<errorMessageRetrying(name)>>,
                  !.isActive = FALSE,
                  !.stream = <<>>])

pending == request[1]

\* startWebcamWithFacingMode(mode, preferredDeviceId, 0) is called
StartRequest(mode) ==
    /\ request = <<>>
    /\ commit(beginAttempt(hookState, stream))
    /\ request' = <<[mode |-> mode, retryCount |-> 0, currentStream |-> stream,
                     attempts |-> 0]>>
    /\ UNCHANGED mediaStreams
    /\ pageAtRest

StartWebcamRetrying == StartRequest("user")

SwitchCameraRetrying ==
    \E cameras \in 1 .. 2 :
        /\ isActive
        /\ IF cameras < 2
           THEN /\ request = <<>>
                /\ error' = <<"Only one camera available. Cannot switch.">>
                /\ UNCHANGED <<stream, isActive, facingMode, liveStreams,
                               mediaStreams, request>>
                /\ pageAtRest
           ELSE StartRequest(IF facingMode = "user" THEN "environment" ELSE "user")

\* getUserMedia of the attempt in progress settles; a rejection that is
\* retried starts the next attempt
AttemptSettles ==
    \E outcome \in RetryingOutcomes :
        /\ request # <<>>
        /\ getUserMedia(outcome)
        /\ IF outcome = "stream"
           THEN /\ commit(attemptResolved(hookState, pending.mode, mediaStreams + 1))
                /\ request' = <<>>
           ELSE IF pending.retryCount < retryLimit(outcome)
           THEN /\ commit(beginAttempt(hookState, pending.currentStream))
                /\ request' = <<[pending EXCEPT !.retryCount = @ + 1,
                                                !.attempts = @ + 1]>>
           ELSE /\ commit(attemptFailed(hookState, outcome))
                /\ request' = <<>>
        /\ pageAtRest

StopWebcamRetrying ==
    /\ commit(stopWebcamCleanup(stream, stopWebcam(hookState)))
    /\ UNCHANGED <<mediaStreams, request>>
    /\ pageAtRest

SpecWebcamRetrying ==
    Init /\ [][StartWebcamRetrying \/ SwitchCameraRetrying \/ AttemptSettles
                 \/ StopWebcamRetrying]_vars

\* ------------------------------------------------------------------------
\* The plasma balls of the page on their own: the effect on [landmarks], the
\* fade and removal timeouts of each ball, and the effect on [isActive].  The
\* 16 ms interval is left out: it maps every ball to itself with a new
\* rotation and opacity.
\* ------------------------------------------------------------------------

\* heights of a wrist: raised (0.30, 0.40) and level with the shoulder
PlasmaWristHeights == {Fx(30, 100), Fx(40, 100), Fx(50, 100)}

\* full landmark sets with both arms visible and the elbows low, and no set
PlasmaFrames ==
    {ArmsFrame(33, lwx, lwy, VisHigh, Fx(60, 100), rwy, VisHigh, Fx(60, 100), VisHigh) :
        lwx \in LeftWristXs,
        lwy \in PlasmaWristHeights, rwy \in PlasmaWristHeights}
    \cup {Null}

\* Math.sqrt(dx * dx + dy * dy) < threshold, on the squares
withinThreshold(ball, position) ==
    (ball.x - position.x) * (ball.x - position.x)
        + (ball.y - position.y) * (ball.y - position.y)
      < Mul(Fx(8, 100), Fx(8, 100)) * SCALE

\* prev.find(...): the first of the indices of the balls that match, 0 for
\* none
findBall(matching) ==
    IF matching = {} THEN 0 ELSE CHOOSE i \in matching : \A j \in matching : i <= j

newBall(id, position, color) ==
    [id |-> id, x |-> position.x, y |-> position.y, opacity |-> SCALE,
     color |-> color]

moveBall(balls, id, position) ==
    [i \in DOMAIN balls |->
        IF balls[i].id = id
        THEN [balls[i] EXCEPT !.x = position.x, !.y = position.y]
        ELSE balls[i]]

\* the updater of the effect on [landmarks]: the next list and the balls it
\* created, for the list prev and the ids from counter on
updatePlasmaBalls(prev, counter, hands) ==
    IF hands.handsTogether /\ hands.mergedPosition # Null
    THEN
        LET existingMergedBall == findBall({i \in DOMAIN prev : prev[i].color = "merged"})
            newMergedBall == newBall(counter, hands.mergedPosition, "merged")
        IN  IF existingMergedBall # 0
            THEN [balls |-> moveBall(prev, prev[existingMergedBall].id, hands.mergedPosition),
                  created |-> <<>>]
            ELSE [balls |-> SelectSeq(prev, LAMBDA ball : ball.color \notin {"blue", "red"})
                              \o <<newMergedBall>>,
                  created |-> <<newMergedBall>>]
    ELSE
        LET left == hands.leftHand.detected /\ hands.leftHand.position # Null
            right == hands.rightHand.detected /\ hands.rightHand.position # Null
            existingBlue ==
                IF left
                THEN findBall({i \in DOMAIN prev :
                                  /\ prev[i].color = "blue"
                                  /\ withinThreshold(prev[i], hands.leftHand.position)})
                ELSE 0
            existingRed ==
                IF right
                THEN findBall({i \in DOMAIN prev :
                                  /\ prev[i].color = "red"
                                  /\ withinThreshold(prev[i], hands.rightHand.position)})
                ELSE 0
            movedBlue == IF existingBlue # 0
                         THEN moveBall(prev, prev[existingBlue].id, hands.leftHand.position)
                         ELSE prev
            updated == IF existingRed # 0
                       THEN moveBall(movedBlue, prev[existingRed].id, hands.rightHand.position)
                       ELSE movedBlue
            createBlue == left /\ existingBlue = 0
            createRed == right /\ existingRed = 0
            newBalls ==
                (IF createBlue
                 THEN <<newBall(counter, hands.leftHand.position, "blue")>> ELSE <<>>)
                \o (IF createRed
                    THEN <<newBall(IF createBlue THEN counter + 1 ELSE counter,
                                   hands.rightHand.position, "red")>>
                    ELSE <<>>)
            kept(ball) == CASE ball.color = "merged" -> hands.handsTogether
                            [] ball.color = "blue" -> hands.leftHand.detected
                            [] ball.color = "red" -> hands.rightHand.detected
                            [] OTHER -> TRUE
        IN  [balls |-> SelectSeq(updated \o newBalls, kept), created |-> newBalls]

webcamAtRest ==
    UNCHANGED <<videoElement, movementData, sensitivity, decayRate,
                heatmapEnabled, skeletonViewEnabled, previousLandmarksRef,
                heatHistory, animationFrame, renderClosure, ticksOfSummary,
                eventCount, cleared, hookVars, args, result>>

\* a pose result sets landmarks and the effect on [landmarks] runs
LandmarksDetected ==
    \E detectedLandmarks \in PlasmaFrames :
        /\ detectedLandmarks # Null \/ landmarks # Null
        /\ landmarks' = detectedLandmarks
        /\ IF detectedLandmarks = Null
           THEN /\ plasmaBalls' = <<>>
                /\ UNCHANGED <<plasmaBallIdCounter, timeouts>>
           ELSE LET next == updatePlasmaBalls(plasmaBalls, plasmaBallIdCounter,
                                              detectRaisedHands(detectedLandmarks))
                IN  /\ plasmaBallIdCounter + Len(next.created) <= MaxPlasmaBalls
                    /\ plasmaBalls' = next.balls
                    /\ plasmaBallIdCounter' = plasmaBallIdCounter + Len(next.created)
                    /\ timeouts' = timeouts \cup
                          {[id |-> next.created[i].id, kind |-> k] :
                              i \in DOMAIN next.created, k \in {"fade", "remove"}}
        /\ webcamAtRest

\* the timeout of 4000 ms of a ball fires: timeouts of equal delay fire in the
\* order they were set
FadeTimeout ==
    \E t \in timeouts :
        /\ t.kind = "fade"
        /\ \A u \in timeouts : u.kind = "fade" => t.id <= u.id
        /\ plasmaBalls' = [i \in DOMAIN plasmaBalls |->
                              IF plasmaBalls[i].id = t.id
                              THEN [plasmaBalls[i] EXCEPT !.opacity = Fx(1, 2)]
                              ELSE plasmaBalls[i]]
        /\ timeouts' = timeouts \ {t}
        /\ UNCHANGED <<landmarks, plasmaBallIdCounter>>
        /\ webcamAtRest

\* the timeout of 5000 ms of a ball fires, after the ball's own of 4000 ms
\* and those of the balls created before it
RemoveTimeout ==
    \E t \in timeouts :
        /\ t.kind = "remove"
        /\ \A u \in timeouts : u.kind = "remove" => t.id <= u.id
        /\ \A u \in timeouts : u.kind = "fade" => t.id < u.id
        /\ plasmaBalls' = SelectSeq(plasmaBalls, LAMBDA ball : ball.id # t.id)
        /\ timeouts' = timeouts \ {t}
        /\ UNCHANGED <<landmarks, plasmaBallIdCounter>>
        /\ webcamAtRest

\* isActive turned false: the effect on [isActive] empties the list
WebcamInactive ==
    /\ plasmaBalls # <<>>
    /\ plasmaBalls' = <<>>
    /\ UNCHANGED <<landmarks, plasmaBallIdCounter, timeouts>>
    /\ webcamAtRest

SpecPlasma ==
    Init /\ [][LandmarksDetected \/ FadeTimeout \/ RemoveTimeout
                 \/ WebcamInactive]_vars

\* ------------------------------------------------------------------------
\* Properties of the heat accumulator
\* ------------------------------------------------------------------------

\* the step is one render() run
TickStep == ticksOfSummary' = ticksOfSummary + 1

\* props of the render() that is pending
tickData == renderClosure[1].movementData
tickDecay == renderClosure[1].decayFactor

visibleNow(i) == tickData.landmarks[i].visibility > Fx(1, 2)

Epsilon == Fx(1, 100)

\* heat of index i after the decay pass of the pending render(), 0 if absent
decayedNow(i) ==
    IF i \in DOMAIN heatHistory /\ Mul(heatHistory[i], SCALE - tickDecay) > Epsilon
    THEN Mul(heatHistory[i], SCALE - tickDecay)
    ELSE 0

\* C1: in one tick every index visible in the current frame ends with
\* max(intensity, 0.8 * h), h being its heat after the decay pass of that tick
\* (0 if absent)
C1_VisibleHeatIsMax ==
    [][TickStep =>
          \A i \in Indices :
              visibleNow(i) =>
                  /\ i \in DOMAIN heatHistory'
                  /\ heatHistory'[i] =
                         Max(tickData.intensity, Mul(decayedNow(i), Fx(8, 10)))]_vars

\* C1: the worked case is reached: heat 0.9, decayFactor 0.5 and intensity 0.2
\* leave 0.36 after the tick
C1_Witness ==
    /\ animationFrame
    /\ ticksOfSummary = 1
    /\ tickDecay = Fx(1, 2)
    /\ tickData.intensity = Fx(2, 10)
    /\ visibleNow(0)
    /\ 0 \in DOMAIN heatHistory
    /\ heatHistory[0] = Fx(36, 100)

\* C2: the decay pass comes first and turns every entry into old * (1 -
\* decayFactor), removing it when that is <= 0.01: an index the update pass
\* skips is absent or holds exactly that product after the tick, and the update
\* pass of a visible index starts from the decayed map
C2_DecayPassFirst ==
    [][TickStep =>
          \A i \in DOMAIN heatHistory :
              LET r == Mul(heatHistory[i], SCALE - tickDecay)
              IN IF visibleNow(i)
                 THEN heatHistory'[i] =
                          Max(tickData.intensity,
                              Mul(IF r > Epsilon THEN r ELSE 0, Fx(8, 10)))
                 ELSE IF r <= Epsilon
                      THEN i \notin DOMAIN heatHistory'
                      ELSE /\ i \in DOMAIN heatHistory'
                           /\ heatHistory'[i] = r]_vars

\* C2: after a tick with a positive decay factor an index that is not visible
\* still holds decayed heat, next to a visible index raised by the update pass
C2_Witness ==
    /\ animationFrame
    /\ ticksOfSummary >= 1
    /\ tickDecay > 0
    /\ tickData.intensity > 0
    /\ \E i \in DOMAIN heatHistory : ~visibleNow(i) /\ heatHistory[i] > Epsilon
    /\ \E i \in DOMAIN heatHistory : visibleNow(i)

\* C3: no entry of the heat map holds a value <= 0.01
C3_EntriesAboveEpsilon ==
    \A i \in DOMAIN heatHistory : heatHistory[i] > Epsilon

\* C4 as claimed: after a tick an entry is at least its value times (1 -
\* decayFactor), unless that product is <= 0.01
C4_NeverBelowDecay ==
    [][TickStep =>
          \A i \in DOMAIN heatHistory :
              LET r == Mul(heatHistory[i], SCALE - tickDecay)
              IN r > Epsilon =>
                     /\ i \in DOMAIN heatHistory'
                     /\ heatHistory'[i] >= r]_vars

\* C4 amended: after a tick an entry is at least 0.8 times its decayed value,
\* unless the decay pass removed it
C4_NeverBelowDampedDecay ==
    [][TickStep =>
          \A i \in DOMAIN heatHistory :
              LET r == Mul(heatHistory[i], SCALE - tickDecay)
              IN r > Epsilon =>
                     /\ i \in DOMAIN heatHistory'
                     /\ heatHistory'[i] >= Mul(r, Fx(8, 10))]_vars

\* C4: a visible index holds heat above the intensity of its frame after a
\* tick, which is the damped rest of its decayed heat
C4_Witness ==
    /\ animationFrame
    /\ ticksOfSummary >= 1
    /\ tickDecay > 0
    /\ \E i \in DOMAIN heatHistory :
           /\ visibleNow(i)
           /\ heatHistory[i] > tickData.intensity
           /\ heatHistory[i] > Epsilon

\* C5 as claimed: in a tick with intensity 0 and decayFactor > 0 an entry
\* above 0.01 strictly decreases or is removed, and an entry that has reached
\* 0.01 or less is removed
C5_ZeroIntensityDecaysToRemoval ==
    [][(TickStep /\ tickData.intensity = 0 /\ tickDecay > 0) =>
          \A i \in DOMAIN heatHistory :
              IF heatHistory[i] <= Epsilon
              THEN i \notin DOMAIN heatHistory'
              ELSE \/ i \notin DOMAIN heatHistory'
                   \/ heatHistory'[i] < heatHistory[i]]_vars

\* C6 as claimed: with decayFactor 0 no entry above 0.01 decreases in a tick
C6_NoDecreaseWithoutDecay ==
    [][(TickStep /\ tickDecay = 0) =>
          \A i \in DOMAIN heatHistory :
              heatHistory[i] > Epsilon =>
                  /\ i \in DOMAIN heatHistory'
                  /\ heatHistory'[i] >= heatHistory[i]]_vars

\* C6 amended: with decayFactor 0 an entry above 0.01 keeps its value in a
\* tick when its index is not visible, and becomes max(intensity, 0.8 * value)
\* when it is
C6_OnlyDampingWithoutDecay ==
    [][(TickStep /\ tickDecay = 0) =>
          \A i \in DOMAIN heatHistory :
              heatHistory[i] > Epsilon =>
                  /\ i \in DOMAIN heatHistory'
                  /\ heatHistory'[i] =
                         IF visibleNow(i)
                         THEN Max(tickData.intensity, Mul(heatHistory[i], Fx(8, 10)))
                         ELSE heatHistory[i]]_vars

\* C6: ticks have run with decayFactor 0 and intensity 0 while one index with
\* heat is visible and another is not
C6_Witness ==
    /\ animationFrame
    /\ ticksOfSummary = MaxTicksPerSummary
    /\ tickDecay = 0
    /\ tickData.intensity = 0
    /\ \E i \in DOMAIN heatHistory : visibleNow(i) /\ heatHistory[i] > Epsilon
    /\ \E i \in DOMAIN heatHistory : ~visibleNow(i) /\ heatHistory[i] > Epsilon

\* C7: after the second of two identical landmark sets of a session the
\* intensity is 0 and the heat map is empty
C7_IdenticalFramesLeaveMapEmpty ==
    (/\ videoElement
     /\ eventCount = 2
     /\ movementData # <<>>
     /\ landmarks # Null
     /\ movementData[1].landmarks = landmarks
     /\ movementData[1].previousLandmarks = landmarks)
        => /\ movementData[1].intensity = 0
           /\ heatHistory = Null

\* C8: once the session is stopped the heat map is empty, and a session that
\* has not ticked yet has an empty heat map
C8_StopClearsHeat ==
    /\ ~videoElement => heatHistory = Null
    /\ (videoElement /\ eventCount <= 1 /\ ticksOfSummary = 0) => heatHistory = Null

\* C8: a session was stopped while its heat map held entries
C8_Witness ==
    /\ ~videoElement
    /\ cleared > 0
    /\ heatHistory = Null

\* C9 as claimed: the tick never runs more than once for the same movement
\* summary
C9_OneTickPerSummary == ticksOfSummary <= 1

\* C9 amended: ticks belong to the animation loop: a frame is pending exactly
\* while the renderer is mounted and enabled, and the pending render() holds
\* the latest summary and the current decay factor
C9_TickPerAnimationFrame ==
    /\ animationFrame <=> (rendererMounted /\ heatmapEnabled)
    /\ animationFrame =>
           renderClosure = <<[movementData |-> movementData[1],
                              decayFactor |-> decayFactor(decayRate)]>>
    /\ ~animationFrame => renderClosure = <<>>

\* C9: one summary has been ticked more than once
C9_Witness ==
    /\ animationFrame
    /\ ticksOfSummary >= 2
    /\ heatHistory # Null

\* C10: while the session runs without a detection the movement data is
\* absent or has intensity 0
C10_NoDetectionMeansZeroIntensity ==
    (videoElement /\ landmarks = Null) =>
        \/ movementData = <<>>
        \/ movementData[1].intensity = 0

\* ------------------------------------------------------------------------
\* Properties of the motion analysis
\* ------------------------------------------------------------------------

\* C11: without a previous landmark set the summary has intensity 0 and every
\* one of the six region intensities is 0, for every current set and every
\* sensitivity
C11_NoBaselineIsZero ==
    (result # Null /\ args.previous = Null) =>
        /\ result[1].summary.intensity = 0
        /\ DOMAIN result[1].summary.regionMovement =
               {"head", "torso", "leftArm", "rightArm", "leftLeg", "rightLeg"}
        /\ \A r \in DOMAIN result[1].summary.regionMovement :
               result[1].summary.regionMovement[r] = 0

\* C11: a summary was computed without a previous set, at the highest
\* sensitivity, for a current set whose landmarks are all visible and away
\* from the rest position
C11_Witness ==
    /\ result # Null
    /\ args.previous = Null
    /\ args.sensitivity = 100
    /\ \A i \in PoseIndices :
           /\ args.current[i].visibility > Fx(1, 2)
           /\ args.current[i].x # Fx(1, 2)
    /\ result[1].summary.intensity = 0

\* C12: the first landmark set that follows a pose result without a detection
\* is summarised with intensity 0 and all region intensities 0, whatever was
\* detected before the gap
C12_GapDiscardsBaseline ==
    [][(videoElement /\ eventCount > 0 /\ landmarks = Null /\ landmarks' # Null) =>
          /\ movementData' # <<>>
          /\ movementData'[1].landmarks = landmarks'
          /\ movementData'[1].intensity = 0
          /\ \A r \in Regions : movementData'[1].regionMovement[r] = 0]_vars

\* C12: a landmark set has been summarised right after a gap, in a session
\* whose heat map still holds an entry of a landmark set from before the gap
\* that differs from the new one
C12_Witness ==
    /\ videoElement
    /\ eventCount = 3
    /\ landmarks # Null
    /\ movementData # <<>>
    /\ movementData[1].landmarks = landmarks
    /\ movementData[1].previousLandmarks = Null
    /\ ticksOfSummary = 0
    /\ \E i \in DOMAIN heatHistory : landmarks[i].visibility <= Fx(1, 2)

\* the indices whose visibility exceeds 0.5 in both sets of the call
qualifying ==
    {i \in PoseIndices : /\ args.current[i].visibility > Fx(1, 2)
                         /\ args.previous[i].visibility > Fx(1, 2)}

\* the 3-D displacement of index i between the two sets of the call
displacement(i) ==
    LET dx == args.current[i].x - args.previous[i].x
        dy == args.current[i].y - args.previous[i].y
        dz == args.current[i].z - args.previous[i].z
    IN Sqrt(dx * dx + dy * dy + dz * dz)

\* the mean displacement over the indices in Q, 0 for no index
meanDisplacement(Q) ==
    IF Q = {} THEN 0
    ELSE SumOver(Q, [i \in Q |-> displacement(i)]) \div Cardinality(Q)

\* C13: the raw intensity is the mean 3-D displacement over exactly the
\* indices visible (> 0.5) in both the current and the previous set, 0 when
\* there is none; every region average is the same mean over the qualifying
\* indices of the region
C13_VisibilityGatedMean ==
    (result # Null /\ args.previous # Null) =>
        /\ result[1].rawIntensity = meanDisplacement(qualifying)
        /\ \A r \in Regions :
               result[1].summary.regionMovement[r] =
                   meanDisplacement({i \in qualifying : LANDMARK_REGIONS(i) = r})

\* C13: only the nose and the left eye qualify; the nose moved by sqrt(2) and
\* the eye by 0.07 while the other 31 landmarks, not visible, moved too: the
\* raw intensity is the average of exactly those two distances
C13_Witness ==
    /\ result # Null
    /\ args.previous # Null
    /\ qualifying = {0, 2}
    /\ displacement(0) = Sqrt(2 * SCALE * SCALE)
    /\ displacement(2) = Fx(7, 100)
    /\ displacement(1) = Fx(7, 100)
    /\ result[1].rawIntensity = (Sqrt(2 * SCALE * SCALE) + Fx(7, 100)) \div 2
    /\ result[1].summary.regionMovement["head"] = result[1].rawIntensity
    /\ result[1].summary.regionMovement["torso"] = 0

C15_MonotoneInSensitivity ==
    result # Null =>
        \A s \in 0 .. 99 :
            normalizeMovement(result[1].rawIntensity, threshold(s))
                <= normalizeMovement(result[1].rawIntensity, threshold(s + 1))

\* C15: a raw displacement of 0.07 was emitted at sensitivity 100 as 1, above
\* what sensitivity 0 gives for it
C15_Witness ==
    /\ result # Null
    /\ args.previous # Null
    /\ args.sensitivity = 100
    /\ result[1].rawIntensity = Fx(7, 100)
    /\ result[1].summary.intensity = SCALE
    /\ normalizeMovement(result[1].rawIntensity, threshold(0)) < SCALE

\* C16 as claimed: every region intensity of a summary is within [0, 1]
C16_RegionsWithinUnit ==
    result # Null =>
        \A r \in Regions :
            /\ result[1].summary.regionMovement[r] >= 0
            /\ result[1].summary.regionMovement[r] <= SCALE

\* C16 amended: every region intensity of a summary is a raw mean
\* displacement: never negative, 0 without a previous set, and otherwise at
\* most the largest displacement of a qualifying landmark of the region (so
\* it is 0 when the region has none)
C16_RegionsAreRawMeans ==
    result # Null =>
        \A r \in Regions :
            LET m == result[1].summary.regionMovement[r]
            IN /\ m >= 0
               /\ args.previous = Null => m = 0
               /\ m > 0 =>
                      \E i \in qualifying :
                          LANDMARK_REGIONS(i) = r /\ displacement(i) >= m

\* C16: the nose is the only qualifying landmark of the head and moved
\* between opposite corners of the image: the summary reports a head intensity
\* of sqrt(2)
C16_Witness ==
    /\ result # Null
    /\ args.previous # Null
    /\ {i \in qualifying : LANDMARK_REGIONS(i) = "head"} = {0}
    /\ args.current[0].x = SCALE
    /\ args.previous[0].x = 0
    /\ result[1].summary.regionMovement["head"] = Sqrt(2 * SCALE * SCALE)
    /\ result[1].summary.regionMovement["head"] > SCALE

\* ------------------------------------------------------------------------
\* Properties of the colour ramp
\* ------------------------------------------------------------------------

\* the colours at the segment boundaries 0, 0.33, 0.66 and 1
RampStops ==
    <<[at |-> 0, r |-> 0, g |-> 100, b |-> 255],
      [at |-> Fx(33, 100), r |-> 0, g |-> 255, b |-> 0],
      [at |-> Fx(66, 100), r |-> 255, g |-> 255, b |-> 0],
      [at |-> SCALE, r |-> 255, g |-> 0, b |-> 0]>>

\* c is the floor of the line from a (at num = 0) to b (at num = den)
IsFloorOfLine(c, a, b, num, den) ==
    /\ c * den <= a * (den - num) + b * num
    /\ a * (den - num) + b * num < (c + 1) * den

C18_TotalByClamping ==
    result # Null =>
        /\ result[1].r \in 0 .. 255
        /\ result[1].g \in 0 .. 255
        /\ result[1].b \in 0 .. 255
        /\ args.intensity < 0 => result[1] = [r |-> 0, g |-> 100, b |-> 255]
        /\ args.intensity > SCALE => result[1] = [r |-> 255, g |-> 0, b |-> 0]

\* C18: the colour of the intensity -5 was computed and is the colour of 0
C18_Witness ==
    /\ result # Null
    /\ args.intensity = -5 * SCALE
    /\ result[1] = [r |-> 0, g |-> 100, b |-> 255]

\* ------------------------------------------------------------------------
\* Properties of the gesture detection
\* ------------------------------------------------------------------------

\* the call got a landmark set that reaches the right wrist
armsGiven == args.landmarks # Null /\ 16 \in DOMAIN args.landmarks

\* the hand with this wrist, elbow and shoulder index is raised in the set of
\* the call
raisedIn(wrist, elbow, shoulder) ==
    LET lms == args.landmarks
    IN /\ lms[wrist].visibility > Fx(1, 2)
       /\ lms[elbow].visibility > Fx(1, 2)
       /\ lms[shoulder].visibility > Fx(1, 2)
       /\ 100 * lms[wrist].y < 100 * lms[elbow].y - 15 * SCALE
       /\ 1000 * lms[wrist].y < 1000 * lms[shoulder].y - 75 * SCALE

\* the planar distance between the two wrists of the call is below 0.1
wristsWithinMerge ==
    LET dx == args.landmarks[15].x - args.landmarks[16].x
        dy == args.landmarks[15].y - args.landmarks[16].y
    IN 100 * (dx * dx + dy * dy) < SCALE * SCALE

C21_RaisedIncludesBoundary ==
    (result # Null /\ armsGiven) =>
        LET lms == args.landmarks
            allVisible(w, e, sh) == /\ lms[w].visibility > Fx(1, 2)
                                    /\ lms[e].visibility > Fx(1, 2)
                                    /\ lms[sh].visibility > Fx(1, 2)
            above(w, e, sh) == /\ 100 * lms[w].y <= 100 * lms[e].y - 15 * SCALE
                               /\ 1000 * lms[w].y <= 1000 * lms[sh].y - 75 * SCALE
        IN /\ allVisible(15, 13, 11) =>
                  ((result[1].leftHand.detected \/ result[1].handsTogether)
                      <=> above(15, 13, 11))
           /\ allVisible(16, 14, 12) =>
                  ((result[1].rightHand.detected \/ result[1].handsTogether)
                      <=> above(16, 14, 12))

\* ------------------------------------------------------------------------
\* Properties of the renderer
\* ------------------------------------------------------------------------

\* C22: in a tick an index whose visibility in the frame of the tick is <= 0.5
\* ends with exactly its decayed value, whatever the intensity, or absent when
\* it had no entry or its decayed value was <= 0.01
C22_InvisibleIndexUntouched ==
    [][TickStep =>
          \A i \in Indices :
              ~visibleNow(i) =>
                  IF i \in DOMAIN heatHistory
                        /\ Mul(heatHistory[i], SCALE - tickDecay) > Epsilon
                  THEN /\ i \in DOMAIN heatHistory'
                       /\ heatHistory'[i] = Mul(heatHistory[i], SCALE - tickDecay)
                  ELSE i \notin DOMAIN heatHistory']_vars

\* C22: after a tick an index that is not visible in the frame of the tick
\* holds heat above 0.01 and below the intensity of that frame
C22_Witness ==
    /\ animationFrame
    /\ ticksOfSummary >= 1
    /\ \E i \in Indices :
           /\ ~visibleNow(i)
           /\ i \in DOMAIN heatHistory
           /\ heatHistory[i] > Epsilon
           /\ heatHistory[i] < tickData.intensity

\* the squared pixel distance, in 1/100 pixel, between the previous and the
\* current position of landmark i in the summary of the run
vectorLengthSquared(i) ==
    LET md == args.closure.movementData
        dx == ((md.landmarks[i].x - md.previousLandmarks[i].x) * args.canvas.width) \div 100
        dy == ((md.landmarks[i].y - md.previousLandmarks[i].y) * args.canvas.height) \div 100
    IN dx * dx + dy * dy

\* C23: a movement vector is drawn for a landmark only if its pixel distance
\* from the previous position is > 2, its heat is > 0.05 and it is visible
\* (> 0.5) in the current and the previous set; a summary without a previous
\* set gets no vector
C23_VectorsOnlyForMovingHotLandmarks ==
    result # Null =>
        LET md == args.closure.movementData
        IN /\ md.previousLandmarks = Null => result[1].vectors = {}
           /\ \A i \in result[1].vectors :
                  /\ md.landmarks[i].visibility > Fx(1, 2)
                  /\ md.previousLandmarks[i].visibility > Fx(1, 2)
                  /\ vectorLengthSquared(i) > 4 * 100 * 100
                  /\ i \in DOMAIN result[1].heatHistory
                  /\ result[1].heatHistory[i] > Fx(5, 100)

\* C23: the run drew the vector of the nose and of no other landmark, while the
\* left eye was visible in both sets and hot but had not moved
C23_Witness ==
    /\ result # Null
    /\ result[1].vectors = {0}
    /\ 2 \in DOMAIN result[1].heatHistory
    /\ result[1].heatHistory[2] > Fx(5, 100)

\* C24: at most one render() callback is scheduled at any time, whatever
\* prop of the renderer changed, and a tick is the run of the one scheduled
\* callback, which leaves exactly itself scheduled
C24_SingleRenderLoop ==
    [][/\ Len(renderClosure') <= 1
       /\ animationFrame' <=> Len(renderClosure') = 1
       /\ TickStep => (Len(renderClosure) = 1 /\ renderClosure' = renderClosure)]_vars

\* C24: the skeleton view was switched on while a render loop that had
\* already ticked was scheduled, and one loop is scheduled afterwards
C24_Witness ==
    /\ videoElement
    /\ skeletonViewEnabled
    /\ eventCount >= 2
    /\ ticksOfSummary >= 1
    /\ animationFrame
    /\ Len(renderClosure) = 1

\* C25: every value stored in the heat map is within [0, 1], and so the
\* stroke width 1 + heat * 7 of a connection between any two landmarks, taken
\* at the hotter end, is within [1, 8]
C25_HeatWithinUnit ==
    /\ \A i \in DOMAIN heatHistory :
           /\ heatHistory[i] >= 0
           /\ heatHistory[i] <= SCALE
    /\ \A i \in DOMAIN heatHistory : \A j \in DOMAIN heatHistory :
           /\ lineWidth(Max(heatHistory[i], heatHistory[j])) >= SCALE
           /\ lineWidth(Max(heatHistory[i], heatHistory[j])) <= 8 * SCALE

\* C25: after more than one tick an entry of the heat map holds 1, next to a
\* cooler one, and the stroke between them is 8 wide
C25_Witness ==
    /\ ticksOfSummary >= 2
    /\ \E i \in DOMAIN heatHistory : \E j \in DOMAIN heatHistory :
           /\ heatHistory[i] = SCALE
           /\ heatHistory[j] < SCALE
           /\ lineWidth(Max(heatHistory[i], heatHistory[j])) = 8 * SCALE

\* C26 as claimed: a new summary that carries a previous set carries the
\* landmark set the page held before the step, and a step that changes the
\* sensitivity emits no new summary whose previous set is its own landmark set
C26_PreviousIsPrecedingFrame ==
    [][(movementData' # movementData /\ movementData' # <<>>
           /\ movementData'[1].previousLandmarks # Null) =>
          /\ movementData'[1].previousLandmarks = landmarks
          /\ sensitivity' # sensitivity =>
                 movementData'[1].previousLandmarks # movementData'[1].landmarks]_vars

\* C27: both functions return, and return values >= 0, for every pair of
\* landmark sets
C27_MotionUtilsNeverThrow ==
    result # Null =>
        /\ ~result[1].intensity.threw
        /\ result[1].intensity.value >= 0
        /\ ~result[1].regionMovement.threw
        /\ \A r \in Regions : result[1].regionMovement.value[r] >= 0

\* ------------------------------------------------------------------------
\* Properties of useWebcam
\* ------------------------------------------------------------------------

\* C28: after every completed call isActive is true exactly when stream is
\* non-null, and a failed call has left isActive false and stream null
C28_ActiveIffStream ==
    [][hookState' # hookState =>
          /\ isActive' <=> stream' # <<>>
          /\ error' # <<>> => (~isActive' /\ stream' = <<>>)]_vars

\* C29: a start request makes at most 3 getUserMedia attempts, and when its
\* last attempt has settled the hook is either active with a stream and no
\* error, or inactive without a stream and with an error
C29_ThreeAttemptsTwoOutcomes ==
    [][/\ request' # <<>> => request'[1].attempts < 3
       /\ (request # <<>> /\ request' = <<>>) =>
              \/ isActive' /\ stream' # <<>> /\ error' = <<>>
              \/ ~isActive' /\ stream' = <<>> /\ error' # <<>>]_vars

\* a request has ended after the third rejection by a busy camera
C29_Witness ==
    /\ request = <<>>
    /\ error = <<errorMessageRetrying("NotReadableError")>>
    /\ ~isActive
    /\ stream = <<>>
    /\ mediaStreams > 0

\* ------------------------------------------------------------------------
\* Properties of the plasma balls
\* ------------------------------------------------------------------------

ballsOfColor(color) == {i \in DOMAIN plasmaBalls : plasmaBalls[i].color = color}

\* C30: the list holds at most one ball of each color, and no merged ball
\* together with a blue or a red one
C30_OneBallPerColor ==
    /\ \A color \in {"blue", "red", "merged"} : Cardinality(ballsOfColor(color)) <= 1
    /\ ballsOfColor("merged") # {} =>
           ballsOfColor("blue") = {} /\ ballsOfColor("red") = {}

====
